---------------------------- MODULE Spec2Model ----------------------------
(***************************************************************************)
(* A model of rnn_model.py: the reorder function that lays a token stream  *)
(* out in sequential batches, and the epoch loop with calc_perplexity that *)
(* threads hidden states through the compiled steppers f_train and f_eval. *)
(* Arrays are sequences; a Python index p is the sequence index p + 1.     *)
(***************************************************************************)
EXTENDS Integers, Sequences, FiniteSets

VARIABLES
    stream,         \* the x_in argument as passed by the caller (kept for reference)
    ndim,           \* x_in.ndim of the argument
    batch_size,     \* reorder's batch_size argument
    model_seq_len,  \* reorder's model_seq_len argument
    rpc,            \* position inside reorder
    x_in,           \* the local x_in (rebound by x_in = x_in[:-1])
    x_resize,
    n_samples,
    n_batches,
    targets,
    x_out,
    out,            \* the row index array
    error,          \* the exception reorder raised, "none" if none
    tpc,            \* position inside the epoch loop and calc_perplexity
    epoch,          \* the loop variable of line 331
    i,              \* the loop variable of line 337
    n_batches_train,
    hidden_states,  \* the list built at lines 335-336
    hid1,           \* the module-level hid1, hid2 assigned at line 344
    hid2,
    sh_lr,          \* the shared learning rate, a fraction <<numerator, denominator>>
    x_valid_rows,   \* x_valid.shape[0]
    p_n_batches,    \* calc_perplexity's n_batches
    p_i,            \* calc_perplexity's loop variable
    p_hid1,         \* calc_perplexity's local hid1, hid2
    p_hid2,
    last_call,      \* the latest call of f_train or f_eval: what it was passed and returned
    prev_call,      \* the call before it: which it was and what it returned
    names,          \* which of the names the module reads but never defines are bound
    caller,         \* who called calc_perplexity: the epoch loop ("loop") or another caller ("direct")
    t_error         \* the exception the epoch loop or calc_perplexity raised, "none" if none

rvars == <<stream, ndim, batch_size, model_seq_len, rpc, x_in, x_resize,
           n_samples, n_batches, targets, x_out, out, error>>

tvars == <<tpc, epoch, i, n_batches_train, hidden_states, hid1, hid2, sh_lr,
           x_valid_rows, p_n_batches, p_i, p_hid1, p_hid2, last_call, prev_call,
           names, caller, t_error>>

vars == <<rvars, tvars>>

-----------------------------------------------------------------------------
(* Bounds of the inputs reorder is applied to. *)
MaxLen == 13
MaxFirst == 2
MaxBatch == 3
MaxSeq == 3

(* The settings of lines 50-63. BATCH_SIZE, REC_NUM_UNITS and num_epochs are
   scaled down from 50, 400 and 1000; the loop bounds and array shapes are
   written in terms of them. *)
BATCH_SIZE == 2
REC_NUM_UNITS == 2
num_epochs == 7
no_decay_epochs == 5
decay == 2
lr == <<2, 1000>>

(* len(features). The call of f_train at lines 344-345 passes len(features)
   hidden states after features_batch and y_batch to a function compiled for
   3 inputs per feature (line 211), and unpacks 2 + 2*len(features) results
   into four names: both fit for one feature only. *)
NumFeatures == 1

(* Bounds of what the collaborators hand to the epoch loop: the number of
   training batches, the rows of x_valid, and the entries of the hidden
   states a stepper returns. *)
MaxTrainBatches == 2
MaxValidRows == 5
MaxHid == 0

-----------------------------------------------------------------------------
(* Python and numpy primitives used by reorder. *)

Min(a, b) == IF a < b THEN a ELSE b

\* s[lo:hi] for 0 <= lo, 0 <= hi: indices are clipped to the length.
Slice(s, lo, hi) ==
    LET l == Min(lo, Len(s))
        h == Min(hi, Len(s))
    IN  IF h <= l THEN <<>> ELSE SubSeq(s, l + 1, h)

\* s[:-1]
DropLast(s) == IF Len(s) = 0 THEN <<>> ELSE SubSeq(s, 1, Len(s) - 1)

\* flat.reshape(rows, cols) is defined only when the sizes agree.
CanReshape(flat, rows, cols) == Len(flat) = rows * cols

Reshape(flat, rows, cols) ==
    [r \in 1..rows |-> SubSeq(flat, (r - 1) * cols + 1, r * cols)]

\* len(range(start, stop, step)) for step > 0
RangeLen(start, stop, step) ==
    IF stop <= start THEN 0 ELSE ((stop - start - 1) \div step) + 1

\* range(start, stop, step) for step > 0
PyRange(start, stop, step) ==
    [n \in 1..RangeLen(start, stop, step) |-> start + (n - 1) * step]

\* a[lo:lo+Len(val)] = val, for a slice that lies inside a
SliceAssign(a, lo, val) ==
    [p \in 1..Len(a) |->
        IF p > lo /\ p <= lo + Len(val) THEN val[p - lo] ELSE a[p]]

\* a[idx] with an integer index array idx (one row of a per entry of idx)
Take(a, idx) == [p \in 1..Len(idx) |-> a[idx[p] + 1]]

-----------------------------------------------------------------------------
(* reorder, lines 66-116. *)

\* A variant of BatchVal that leaves the rows in their naive chunk order.
BatchValNaiveOrder(b, nb, bs) == PyRange(b * bs, (b + 1) * bs, 1)

\* A variant of BatchVal that forgets the offset i of the batch.
BatchValNoOffset(b, nb, bs) == PyRange(0, nb * bs, nb)

\* The row numbers written for batch b (the loop's i):
\*     val = range(i, n_batches*batch_size+i, n_batches)
BatchVal(b, nb, bs) == PyRange(b, nb * bs + b, nb)

\* out after the first k iterations of the loop of lines 109-111, starting
\* from np.zeros(n_samples, dtype=int).
RECURSIVE IndexAfter(_, _, _, _)
IndexAfter(k, ns, nb, bs) ==
    IF k = 0
    THEN [p \in 1..ns |-> 0]
    ELSE SliceAssign(IndexAfter(k - 1, ns, nb, bs), (k - 1) * bs,
                     BatchVal(k - 1, nb, bs))

\* x_resize, lines 99-100
XResize(len, bs, sl) == (len \div (bs * sl)) * sl * bs

\* The streams reorder is applied to: first, first+1, ..., of every length
\* up to MaxLen (tokens are distinct, so a token fixes its position).
Streams ==
    {[p \in 1..len |-> first + p - 1] : len \in 0..MaxLen, first \in 1..MaxFirst}

ReorderInit ==
    /\ stream \in Streams
    /\ ndim \in 1..2
    /\ batch_size \in 1..MaxBatch
    /\ model_seq_len \in 1..MaxSeq
    /\ x_in = stream
    /\ rpc = "entry"
    /\ x_resize = 0
    /\ n_samples = 0
    /\ n_batches = 0
    /\ targets = <<>>
    /\ x_out = <<>>
    /\ out = <<>>
    /\ error = "none"

\* lines 91-92
CheckDim ==
    /\ rpc = "entry"
    /\ IF ndim # 1
       THEN /\ rpc' = "raised"
            /\ error' = "ValueError"
       ELSE /\ rpc' = "checked"
            /\ error' = error
    /\ UNCHANGED <<stream, ndim, batch_size, model_seq_len, x_in, x_resize,
                   n_samples, n_batches, targets, x_out, out>>

\* lines 94-97
TrimLast ==
    /\ rpc = "checked"
    /\ x_in' = IF Len(x_in) % (batch_size * model_seq_len) = 0
               THEN DropLast(x_in)
               ELSE x_in
    /\ rpc' = "trimmed"
    /\ UNCHANGED <<stream, ndim, batch_size, model_seq_len, x_resize,
                   n_samples, n_batches, targets, x_out, out, error>>

\* lines 99-102
Resize ==
    /\ rpc = "trimmed"
    /\ x_resize' = XResize(Len(x_in), batch_size, model_seq_len)
    /\ n_samples' = x_resize' \div model_seq_len
    /\ n_batches' = n_samples' \div batch_size
    /\ rpc' = "sized"
    /\ UNCHANGED <<stream, ndim, batch_size, model_seq_len, x_in, targets,
                   x_out, out, error>>

\* lines 104-105: the two reshapes; numpy raises ValueError when the slice
\* does not hold n_samples * model_seq_len elements.
Chunk ==
    /\ rpc = "sized"
    /\ LET tflat == Slice(x_in, 1, x_resize + 1)
           xflat == Slice(x_in, 0, x_resize)
       IN  IF ~CanReshape(tflat, n_samples, model_seq_len)
           THEN /\ rpc' = "raised"
                /\ error' = "ValueError"
                /\ UNCHANGED <<targets, x_out>>
           ELSE IF ~CanReshape(xflat, n_samples, model_seq_len)
           THEN /\ rpc' = "raised"
                /\ error' = "ValueError"
                /\ targets' = Reshape(tflat, n_samples, model_seq_len)
                /\ UNCHANGED x_out
           ELSE /\ rpc' = "chunked"
                /\ targets' = Reshape(tflat, n_samples, model_seq_len)
                /\ x_out' = Reshape(xflat, n_samples, model_seq_len)
                /\ error' = error
    /\ UNCHANGED <<stream, ndim, batch_size, model_seq_len, x_in, x_resize,
                   n_samples, n_batches, out>>

\* lines 107-111
BuildIndex ==
    /\ rpc = "chunked"
    /\ out' = IndexAfter(n_batches, n_samples, n_batches, batch_size)
    /\ rpc' = "indexed"
    /\ UNCHANGED <<stream, ndim, batch_size, model_seq_len, x_in, x_resize,
                   n_samples, n_batches, targets, x_out, error>>

\* lines 113-116
Permute ==
    /\ rpc = "indexed"
    /\ x_out' = Take(x_out, out)
    /\ targets' = Take(targets, out)
    /\ rpc' = "returned"
    /\ UNCHANGED <<stream, ndim, batch_size, model_seq_len, x_in, x_resize,
                   n_samples, n_batches, out, error>>

-----------------------------------------------------------------------------
(* The epoch loop, lines 330-366, and calc_perplexity, lines 303-328. *)

\* np.ones((rows, cols))
NpOnes(rows, cols) == [r \in 1..rows |-> [u \in 1..cols |-> 1]]

\* np.zeros((rows, cols), dtype='float32')
NpZeros(rows, cols) == [r \in 1..rows |-> [u \in 1..cols |-> 0]]

\* The final-time-step hidden states a stepper may return, one array of
\* shape (BATCH_SIZE, REC_NUM_UNITS) per recurrent layer: every constant
\* array with an entry in 0..MaxHid, and one whose lanes differ.
Hids ==
    {[r \in 1..BATCH_SIZE |-> [u \in 1..REC_NUM_UNITS |-> v]] : v \in 0..MaxHid}
        \cup {[r \in 1..BATCH_SIZE |-> [u \in 1..REC_NUM_UNITS |-> r]]}

\* The row counts x_valid may have.
ValidRows == 0..MaxValidRows

NoCall == [fn |-> "none", batch |-> 0, lo |-> 0, hi |-> 0,
           passed |-> <<>>, returned |-> <<>>]

\* What is remembered of a call once the next one is made.
Earlier(call) == [fn |-> call.fn, batch |-> call.batch, returned |-> call.returned]

\* A variant of TrainCarry that stores the returned states in the list.
TrainCarryReturned(states, ret) == ret

\* hidden_states after line 344: the returned states go to hid1 and hid2,
\* the list hidden_states itself is not assigned.
TrainCarry(states, ret) == states

\* A variant of EvalCarry that keeps the states the call was passed.
EvalCarryDropped(passed, ret) == passed

\* <<hid1, hid2>> after lines 321-322: cost, hid1, hid2 = f_eval(...)
EvalCarry(passed, ret) == ret

\* sh_lr.set_value(current_lr / float(decay)), lines 353-354
Decayed(rate) == <<rate[1], rate[2] * decay>>

\* The names lines 303-366 read that the module neither defines nor imports:
\* corpus_iterator (lines 340-341) and MODEL_SEQ_LEN (lines 325, 357, 358).
\* Reading one raises NameError unless the namespace the module runs in
\* binds it; the source as written binds neither.
FreeNames == {"corpus_iterator", "MODEL_SEQ_LEN"}

TrainInit ==
    /\ tpc = "epoch_start"
    /\ epoch = 0
    /\ i = 0
    /\ n_batches_train \in 0..MaxTrainBatches
    /\ hidden_states = <<>>
    /\ hid1 = "unset"
    /\ hid2 = "unset"
    /\ sh_lr = lr
    /\ x_valid_rows \in {n \in ValidRows : n % BATCH_SIZE = 0}
    /\ p_n_batches = 0
    /\ p_i = 0
    /\ p_hid1 = "unset"
    /\ p_hid2 = "unset"
    /\ last_call = NoCall
    /\ prev_call = Earlier(NoCall)
    /\ names \in SUBSET FreeNames
    /\ caller = "loop"
    /\ t_error = "none"

\* calc_perplexity(x, y) called on its own, with x of any row count.
PerplexityInit ==
    /\ tpc = "perplexity"
    /\ epoch = 0
    /\ i = 0
    /\ n_batches_train = 0
    /\ hidden_states = <<>>
    /\ hid1 = "unset"
    /\ hid2 = "unset"
    /\ sh_lr = lr
    /\ x_valid_rows \in ValidRows
    /\ p_n_batches = 0
    /\ p_i = 0
    /\ p_hid1 = "unset"
    /\ p_hid2 = "unset"
    /\ last_call = NoCall
    /\ prev_call = Earlier(NoCall)
    /\ names \in SUBSET FreeNames
    /\ caller = "direct"
    /\ t_error = "none"

\* The epoch loop at rest, while reorder alone is examined.
TrainIdle ==
    /\ tpc = "idle"
    /\ epoch = 0
    /\ i = 0
    /\ n_batches_train = 0
    /\ hidden_states = <<>>
    /\ hid1 = "unset"
    /\ hid2 = "unset"
    /\ sh_lr = lr
    /\ x_valid_rows = 0
    /\ p_n_batches = 0
    /\ p_i = 0
    /\ p_hid1 = "unset"
    /\ p_hid2 = "unset"
    /\ last_call = NoCall
    /\ prev_call = Earlier(NoCall)
    /\ names = {}
    /\ caller = "none"
    /\ t_error = "none"

\* reorder at rest, while the epoch loop alone is examined.
ReorderIdle ==
    /\ stream = <<>>
    /\ ndim = 1
    /\ batch_size = BATCH_SIZE
    /\ model_seq_len = 1
    /\ x_in = <<>>
    /\ rpc = "idle"
    /\ x_resize = 0
    /\ n_samples = 0
    /\ n_batches = 0
    /\ targets = <<>>
    /\ x_out = <<>>
    /\ out = <<>>
    /\ error = "none"

\* lines 331-336: an epoch begins
EpochStart ==
    /\ tpc = "epoch_start"
    /\ epoch < num_epochs
    /\ hidden_states' = [f \in 1..NumFeatures |-> NpZeros(BATCH_SIZE, REC_NUM_UNITS)]
    /\ i' = 0
    /\ tpc' = "batches"
    /\ UNCHANGED <<epoch, n_batches_train, hid1, hid2, sh_lr, x_valid_rows,
                   p_n_batches, p_i, p_hid1, p_hid2, last_call, prev_call,
                   names, caller, t_error>>

\* lines 337-347: one training batch. Line 340 reads corpus_iterator first:
\* unbound, it raises NameError before x_valid is rebound and before f_train
\* is called. Otherwise extract_batch rebinds x_valid and f_train returns a
\* hidden state per recurrent layer.
TrainBatch ==
    /\ tpc = "batches"
    /\ i < n_batches_train
    /\ IF "corpus_iterator" \notin names
       THEN /\ tpc' = "raised"
            /\ t_error' = "NameError"
            /\ UNCHANGED <<i, hidden_states, hid1, hid2, x_valid_rows,
                           last_call, prev_call>>
       ELSE /\ \E rows \in ValidRows : x_valid_rows' = rows
            /\ \E h1 \in Hids, h2 \in Hids :
                  /\ hid1' = h1
                  /\ hid2' = h2
                  /\ hidden_states' = TrainCarry(hidden_states, <<h1, h2>>)
                  /\ last_call' = [fn |-> "f_train", batch |-> i, lo |-> 0, hi |-> 0,
                                   passed |-> hidden_states, returned |-> <<h1, h2>>]
            /\ prev_call' = Earlier(last_call)
            /\ i' = i + 1
            /\ UNCHANGED <<tpc, t_error>>
    /\ UNCHANGED <<epoch, n_batches_train, sh_lr, p_n_batches, p_i, p_hid1,
                   p_hid2, names, caller>>

\* lines 348-354: the checkpoint is written and the rate may decay
EpochEnd ==
    /\ tpc = "batches"
    /\ i >= n_batches_train
    /\ sh_lr' = IF epoch > (no_decay_epochs - 1) THEN Decayed(sh_lr) ELSE sh_lr
    /\ tpc' = "report"
    /\ UNCHANGED <<epoch, i, n_batches_train, hidden_states, hid1, hid2,
                   x_valid_rows, p_n_batches, p_i, p_hid1, p_hid2, last_call,
                   prev_call, names, caller, t_error>>

\* lines 356-358: words_per_second and n_words_evaluated read MODEL_SEQ_LEN;
\* unbound, line 357 raises NameError and calc_perplexity is never called.
EpochReport ==
    /\ tpc = "report"
    /\ IF "MODEL_SEQ_LEN" \notin names
       THEN /\ tpc' = "raised"
            /\ t_error' = "NameError"
       ELSE /\ tpc' = "perplexity"
            /\ t_error' = t_error
    /\ UNCHANGED <<epoch, i, n_batches_train, hidden_states, hid1, hid2, sh_lr,
                   x_valid_rows, p_n_batches, p_i, p_hid1, p_hid2, last_call,
                   prev_call, names, caller>>

\* lines 313-316: calc_perplexity is entered (from line 359, or directly)
PerplexityStart ==
    /\ tpc = "perplexity"
    /\ p_n_batches' = x_valid_rows \div BATCH_SIZE
    /\ p_hid1' = NpZeros(BATCH_SIZE, REC_NUM_UNITS)
    /\ p_hid2' = NpZeros(BATCH_SIZE, REC_NUM_UNITS)
    /\ p_i' = 0
    /\ tpc' = "eval_batches"
    /\ UNCHANGED <<epoch, i, n_batches_train, hidden_states, hid1, hid2, sh_lr,
                   x_valid_rows, last_call, prev_call, names, caller, t_error>>

\* lines 318-323: one evaluation batch
EvalBatch ==
    /\ tpc = "eval_batches"
    /\ p_i < p_n_batches
    /\ \E h1 \in Hids, h2 \in Hids :
          LET carried == EvalCarry(<<p_hid1, p_hid2>>, <<h1, h2>>)
          IN  /\ p_hid1' = carried[1]
              /\ p_hid2' = carried[2]
              /\ last_call' = [fn |-> "f_eval", batch |-> p_i,
                               lo |-> p_i * BATCH_SIZE,
                               hi |-> Min((p_i + 1) * BATCH_SIZE, x_valid_rows),
                               passed |-> <<p_hid1, p_hid2>>,
                               returned |-> <<h1, h2>>]
    /\ prev_call' = Earlier(last_call)
    /\ p_i' = p_i + 1
    /\ UNCHANGED <<tpc, epoch, i, n_batches_train, hidden_states, hid1, hid2,
                   sh_lr, x_valid_rows, p_n_batches, names, caller, t_error>>

\* lines 325-328: after the loop calc_perplexity reads MODEL_SEQ_LEN; unbound,
\* line 325 raises NameError and calc_perplexity does not return.
PerplexityEnd ==
    /\ tpc = "eval_batches"
    /\ p_i >= p_n_batches
    /\ IF "MODEL_SEQ_LEN" \notin names
       THEN /\ tpc' = "raised"
            /\ t_error' = "NameError"
       ELSE /\ tpc' = IF caller = "loop" THEN "perplexity_done" ELSE "returned"
            /\ t_error' = t_error
    /\ UNCHANGED <<epoch, i, n_batches_train, hidden_states, hid1, hid2, sh_lr,
                   x_valid_rows, p_n_batches, p_i, p_hid1, p_hid2, last_call,
                   prev_call, names, caller>>

\* lines 359-366 and the loop header: the epoch is printed, the next begins
EpochNext ==
    /\ tpc = "perplexity_done"
    /\ epoch' = epoch + 1
    /\ tpc' = IF epoch + 1 < num_epochs THEN "epoch_start" ELSE "done"
    /\ UNCHANGED <<i, n_batches_train, hidden_states, hid1, hid2, sh_lr,
                   x_valid_rows, p_n_batches, p_i, p_hid1, p_hid2, last_call,
                   prev_call, names, caller, t_error>>

Init == ReorderInit /\ TrainIdle

Next ==
    \/ CheckDim /\ UNCHANGED tvars
    \/ TrimLast /\ UNCHANGED tvars
    \/ Resize /\ UNCHANGED tvars
    \/ Chunk /\ UNCHANGED tvars
    \/ BuildIndex /\ UNCHANGED tvars
    \/ Permute /\ UNCHANGED tvars

Spec == Init /\ [][Next]_vars

TrainNext ==
    \/ EpochStart /\ UNCHANGED rvars
    \/ TrainBatch /\ UNCHANGED rvars
    \/ EpochEnd /\ UNCHANGED rvars
    \/ EpochReport /\ UNCHANGED rvars
    \/ PerplexityStart /\ UNCHANGED rvars
    \/ EvalBatch /\ UNCHANGED rvars
    \/ PerplexityEnd /\ UNCHANGED rvars
    \/ EpochNext /\ UNCHANGED rvars

TrainSpecInit == TrainInit /\ ReorderIdle

TrainSpec == TrainSpecInit /\ [][TrainNext]_vars

PerplexityNext ==
    \/ PerplexityStart /\ UNCHANGED rvars
    \/ EvalBatch /\ UNCHANGED rvars
    \/ PerplexityEnd /\ UNCHANGED rvars

PerplexitySpecInit == PerplexityInit /\ ReorderIdle

PerplexitySpec == PerplexitySpecInit /\ [][PerplexityNext]_vars

-----------------------------------------------------------------------------
(* Properties of reorder. *)

Returned == rpc = "returned"

\* Row r (a Python index) of a two-dimensional array.
Row(a, r) == a[r + 1]

\* The rows of lane j in the sequential batches 0 .. k-1, concatenated.
RECURSIVE LaneConcat(_, _, _, _)
LaneConcat(a, j, bs, k) ==
    IF k = 0 THEN <<>>
    ELSE LaneConcat(a, j, bs, k - 1) \o Row(a, (k - 1) * bs + j)

\* C1: row-lane continuity. With N returned rows and n_batches = N / B, the
\* rows k*B + j (k = 0 .. n_batches-1) of the returned inputs, concatenated,
\* are a contiguous slice of the stream, for every lane j; so row j of batch
\* k+1 starts right after the last position of row j of batch k.
C1_LaneContinuity ==
    Returned =>
        LET nb == Len(x_out) \div batch_size
        IN  \A j \in 0..(batch_size - 1) :
               /\ \E p \in 0..Len(stream) :
                     /\ p + nb * model_seq_len <= Len(stream)
                     /\ LaneConcat(x_out, j, batch_size, nb)
                            = Slice(stream, p, p + nb * model_seq_len)
               /\ \A k \in 0..(nb - 2) :
                     Row(x_out, (k + 1) * batch_size + j)[1]
                        = Row(x_out, k * batch_size + j)[model_seq_len] + 1

C1_Witness ==
    /\ Returned
    /\ batch_size >= 2
    /\ model_seq_len >= 2
    /\ Len(x_out) \div batch_size >= 2

\* C3 as stated: whenever L >= B*S, both returned arrays have shape (N, S)
\* with N = floor(L / (B*S)) * B, and N mod B = 0.
C3_ShapeAsStated ==
    (Returned /\ Len(stream) >= batch_size * model_seq_len) =>
        LET N == (Len(stream) \div (batch_size * model_seq_len)) * batch_size
        IN  /\ Len(x_out) = N
            /\ Len(targets) = N
            /\ \A r \in 1..Len(x_out) : Len(x_out[r]) = model_seq_len
            /\ \A r \in 1..Len(targets) : Len(targets[r]) = model_seq_len
            /\ N % batch_size = 0

\* C4 as stated: a stream shorter than B*S makes reorder signal an error; it
\* never returns (an empty array).
C4_InsufficientDataRaises ==
    (ndim = 1 /\ Len(stream) < batch_size * model_seq_len) => ~Returned

\* C5 as stated: once the targets are built, the trimmed stream held at least
\* usable+1 elements, the build did not fail, and before the permutation
\* inputs[c][t] = stream[c*S + t] and targets[c][t] = stream[c*S + t + 1]
\* (Python indices) for every row c and step t.
C5_TargetsExist ==
    (ndim = 1 /\ rpc \in {"chunked", "raised"}) =>
        /\ rpc = "chunked"
        /\ Len(x_in) >= x_resize + 1
        /\ Len(x_out) = n_samples
        /\ Len(targets) = n_samples
        /\ \A c \in 0..(n_samples - 1) : \A t \in 0..(model_seq_len - 1) :
              /\ Row(x_out, c)[t + 1] = stream[c * model_seq_len + t + 1]
              /\ Row(targets, c)[t + 1] = stream[c * model_seq_len + t + 2]

\* C6 as stated (the docstring's example): x_in = [1..12], batch_size = 2,
\* model_seq_len = 3 returns the rows [1,2,3], [7,8,9], [4,5,6], [10,11,12].
C6_DocstringExample ==
    (/\ Returned
     /\ stream = [p \in 1..12 |-> p]
     /\ batch_size = 2
     /\ model_seq_len = 3) =>
        x_out = << <<1, 2, 3>>, <<7, 8, 9>>, <<4, 5, 6>>, <<10, 11, 12>> >>

\* C10: the index array is a permutation of 0..N-1, and the returned inputs
\* and targets are the naive chunks (and their shift by one) taken through
\* that same array: row p of the result is chunk out[p].
C10_IndexIsPermutation ==
    Returned =>
        LET N == n_samples
            S == model_seq_len
        IN  /\ Len(out) = N
            /\ {out[p] : p \in 1..Len(out)} = 0..(N - 1)
            /\ \A p, q \in 1..Len(out) : out[p] = out[q] => p = q
            /\ N * S <= Len(stream)
            /\ Len(x_out) = N
            /\ Len(targets) = N
            /\ \A p \in 1..N :
                  /\ x_out[p] = Slice(stream, out[p] * S, out[p] * S + S)
                  /\ targets[p] = Slice(stream, out[p] * S + 1, out[p] * S + S + 1)
                  /\ Len(targets[p]) = S

C10_Witness ==
    /\ Returned
    /\ Len(out) >= 4
    /\ \E p \in 1..Len(out) : out[p] # p - 1

-----------------------------------------------------------------------------
(* Properties of the epoch loop and of calc_perplexity. *)

\* h is the all-zero array of shape (BATCH_SIZE, REC_NUM_UNITS).
IsZeroState(h) ==
    /\ DOMAIN h = 1..BATCH_SIZE
    /\ \A r \in 1..BATCH_SIZE :
          /\ DOMAIN h[r] = 1..REC_NUM_UNITS
          /\ \A u \in 1..REC_NUM_UNITS : h[r][u] = 0

RECURSIVE Pow(_, _)
Pow(b, n) == IF n = 0 THEN 1 ELSE b * Pow(b, n - 1)

\* C2 as stated: in an epoch, the hidden states passed to f_train for batch
\* i >= 1 are the final-time-step hidden states f_train returned for batch
\* i - 1 (each state passed is the returned state of the same layer).
C2_TrainCarryAsStated ==
    (tpc = "batches" /\ i >= 2) =>
        /\ last_call.fn = "f_train"
        /\ last_call.batch = i - 1
        /\ prev_call.fn = "f_train"
        /\ prev_call.batch = i - 2
        /\ Len(last_call.passed) >= 1
        /\ \A n \in 1..Len(last_call.passed) :
              /\ n <= Len(prev_call.returned)
              /\ last_call.passed[n] = prev_call.returned[n]

\* C7: the hidden states passed to the stepper for batch 0, in every epoch
\* and in every call of calc_perplexity, are all-zero arrays of shape
\* (BATCH_SIZE, REC_NUM_UNITS).
C7_ZeroStateAtBatchZero ==
    (last_call.fn \in {"f_train", "f_eval"} /\ last_call.batch = 0) =>
        /\ Len(last_call.passed) >= 1
        /\ \A n \in 1..Len(last_call.passed) : IsZeroState(last_call.passed[n])

C7_Witness ==
    /\ epoch >= 1
    /\ last_call.fn = "f_train"
    /\ last_call.batch = 0
    /\ prev_call.fn \in {"f_train", "f_eval"}
    /\ \E n \in 1..Len(prev_call.returned) : ~IsZeroState(prev_call.returned[n])

\* The rate the claimed schedule gives while epoch e runs: no_decay_epochs
\* epochs at lr, one division by decay before each later epoch.
ClaimedRate(e) ==
    <<lr[1],
      lr[2] * Pow(decay, IF e < no_decay_epochs THEN 0 ELSE e - no_decay_epochs + 1)>>

\* C8 as stated: exactly no_decay_epochs epochs run at the initial rate; the
\* first division by decay happens once no_decay_epochs epochs are complete,
\* and one more follows every later epoch.
C8_ScheduleAsStated ==
    (tpc = "batches") => sh_lr = ClaimedRate(epoch)

\* C9: in calc_perplexity, n_batches = rows // BATCH_SIZE; the p_i-th call of
\* f_eval is for batch p_i - 1, on rows [batch*BATCH_SIZE, (batch+1)*BATCH_SIZE),
\* and from batch 1 on it is passed the two hidden states the call for the
\* batch before returned; the loop ends after n_batches calls.
C9_EvalCarry ==
    (tpc = "eval_batches") =>
        /\ p_n_batches = x_valid_rows \div BATCH_SIZE
        /\ p_i <= p_n_batches
        /\ (p_i >= 1) =>
              /\ last_call.fn = "f_eval"
              /\ last_call.batch = p_i - 1
              /\ last_call.lo = last_call.batch * BATCH_SIZE
              /\ last_call.hi = (last_call.batch + 1) * BATCH_SIZE
              /\ Len(last_call.passed) = 2
              /\ <<p_hid1, p_hid2>> = last_call.returned
        /\ (p_i >= 2) =>
              /\ prev_call.fn = "f_eval"
              /\ prev_call.batch = p_i - 2
              /\ last_call.passed = prev_call.returned

C9_Witness ==
    /\ tpc = "eval_batches"
    /\ p_i >= 2
    /\ ~IsZeroState(last_call.passed[1])
    /\ last_call.returned # last_call.passed

=============================================================================
